---- MODULE Spec2Model ----
(***************************************************************************)
(* Model of the quasar accounts engine: the gRPC handlers, the transaction *)
(* processor, the ledger primitives, and the orchestrator's shutdown and   *)
(* boot around the account snapshot.                                       *)
(***************************************************************************)
EXTENDS Integers, Sequences, FiniteSets, TLC

\* ------------------------------------------------------------------ bounds
\* The largest balance: stands for u64::MAX, so that overflow is reachable.
U64Max == 3
\* The size of the pool Uuid::new_v4 draws account ids from.
MaxAccounts == 2
\* The number of distinct transaction ids clients give their deposits, transfers
\* and balance queries; CreateAccount requests have MaxAccounts ids of their own.
MaxTx == 3
\* The number of concurrent gRPC handler tasks.
NumWorkers == 2
\* How many times the engine is booted again after a shutdown.
MaxBoots == 1

AccountIds == 1..MaxAccounts
TxIds == 1..MaxTx
CreateIds == (MaxTx + 1)..(MaxTx + MaxAccounts)
Workers == 1..NumWorkers
Amounts == {0, 1, U64Max}

VARIABLES
    accounts,                \* Ledger.accounts: uuid -> Account
    processed_transactions,  \* Ledger.processed_transactions
    poisoned,                \* the RwLocks were held by a task that panicked
    last,                    \* the last request handled and what it returned
    pc, req, res,            \* per gRPC handler: position, Transaction, result
    local,                   \* per gRPC handler: process_transfer's account copies
    lock,                    \* the handler holding the processor's write lock, or 0
    locks,                   \* the four RwLocks, each with its writer and readers
    phase, db, boots,        \* orchestrator position, snapshot store, boot count
    call                     \* the last direct call of a ledger primitive

ledgerVars == <<accounts, processed_transactions, poisoned>>
handlerVars == <<pc, req, res, local, lock, locks>>
lifeVars == <<phase, db, boots>>

vars == <<accounts, processed_transactions, poisoned, last, pc, req, res, local,
          lock, locks, phase, db, boots, call>>

\* ------------------------------------------------------------------ models.rs
Email(s) == [kind |-> "Email", value |-> s]

KeyChoices == {<<>>, <<Email("test@test.com")>>}

TransferInstruction(s, d, a) ==
    [kind |-> "Transfer", source_account_id |-> s,
     destination_account_id |-> d, amount |-> a]

CreateAccountInstruction(keys) == [kind |-> "CreateAccount", keys |-> keys]

DepositInstruction(d, a) ==
    [kind |-> "Deposit", destination_account_id |-> d, amount |-> a]

GetBalanceInstruction(a) == [kind |-> "GetBalance", account_id |-> a]

Transaction(id, inst) == [id |-> id, instruction |-> inst, status |-> "Pending"]

\* An entry of Account.transaction_history (Vec<Uuid>): the transaction id of the
\* HistoricTransfer that commit_transfer pushes.
HistoricTransfer(id, inst) == id

\* Account::new, for the uuid that Uuid::new_v4 returned.
AccountNew(uuid, keys) ==
    [uuid |-> uuid, balance |-> 0, keys |-> keys, transaction_history |-> <<>>]

\* ------------------------------------------------------------------ u64
saturating_sub(a, b) == IF a < b THEN 0 ELSE a - b

saturating_add(a, b) == IF a + b > U64Max THEN U64Max ELSE a + b

wrapping_add(a, b) == (a + b) % (U64Max + 1)

\* ------------------------------------------------------------------ results
Result(tag, val) == [tag |-> tag, val |-> val]

Success == Result("Success", 0)
AccountCreated(id) == Result("AccountCreated", id)
Balance(b) == Result("Balance", b)
TransactionAlreadyProcessed == Result("TransactionAlreadyProcessed", 0)
InsufficientFunds == Result("InsufficientFunds", 0)
\* TransactionProcessorError::LedgerError(e), by #[from]
LedgerError(e) == Result("LedgerError::" \o e, 0)
Panicked == Result("panic", 0)
NoResult == Result("none", 0)

\* A ledger is its two collections; an outcome of a call is the value it returns,
\* the ledger it leaves, and whether the call unwound with the locks held.
Ledger(accs, processed) == [accounts |-> accs, processed_transactions |-> processed]

Outcome(result, ledger, panicked) ==
    [result |-> result, ledger |-> ledger, panicked |-> panicked]

Insert_replacing(accs, id, account) == (id :> account)

\* HashMap::insert
Insert(accs, id, account) == (id :> account) @@ accs

\* ------------------------------------------------------------------ ledger/mod.rs
create_account_keyless(L, keys) ==
    { [id |-> id,
       ledger |-> Ledger(Insert(L.accounts, id, AccountNew(id, <<>>)),
                         L.processed_transactions)]
      : id \in AccountIds \ DOMAIN L.accounts }

create_account(L, keys) ==
    { [id |-> id,
       ledger |-> Ledger(Insert(L.accounts, id, AccountNew(id, keys)),
                         L.processed_transactions)]
      : id \in AccountIds \ DOMAIN L.accounts }

get_account(L, id) ==
    IF id \in DOMAIN L.accounts
    THEN [err |-> "Ok", account |-> L.accounts[id]]
    ELSE [err |-> "AccountNotFound", account |-> AccountNew(0, <<>>)]

is_transaction_processed_never(L, transaction_id) == FALSE

is_transaction_processed(L, transaction_id) ==
    transaction_id \in L.processed_transactions

mark_transaction_processed_forgotten(L, transaction_id) == L

mark_transaction_processed(L, transaction_id) ==
    Ledger(L.accounts, L.processed_transactions \cup {transaction_id})

commit_transfer_unmarked(L, transaction_id, instruction, source_account, dest_account) ==
    [err |-> "Ok",
     ledger |-> Ledger(Insert(Insert(L.accounts, source_account.uuid, source_account),
                              dest_account.uuid, dest_account),
                       L.processed_transactions),
     source_account |-> source_account, dest_account |-> dest_account]

commit_transfer_source_only(L, transaction_id, instruction, source_account, dest_account) ==
    LET src == [source_account EXCEPT
                  !.transaction_history =
                      Append(@, HistoricTransfer(transaction_id, instruction))]
    IN [err |-> "Ok",
        ledger |-> Ledger(Insert(Insert(L.accounts, src.uuid, src),
                                 dest_account.uuid, dest_account),
                          L.processed_transactions \cup {transaction_id}),
        source_account |-> src, dest_account |-> dest_account]

commit_transfer_keyless(L, transaction_id, instruction, source_account, dest_account) ==
    LET h == HistoricTransfer(transaction_id, instruction)
        src == [source_account EXCEPT
                  !.transaction_history = Append(@, h), !.keys = <<>>]
        dst == [dest_account EXCEPT
                  !.transaction_history = Append(@, h), !.keys = <<>>]
    IN [err |-> "Ok",
        ledger |-> Ledger(Insert(Insert(L.accounts, src.uuid, src), dst.uuid, dst),
                          L.processed_transactions \cup {transaction_id}),
        source_account |-> src, dest_account |-> dst]

commit_transfer_unguarded(L, transaction_id, instruction, source_account, dest_account) ==
    LET h == HistoricTransfer(transaction_id, instruction)
        src == [source_account EXCEPT !.transaction_history = Append(@, h)]
        dst == [dest_account EXCEPT !.transaction_history = Append(@, h)]
    IN [err |-> "Ok",
        ledger |-> Ledger(Insert(Insert(L.accounts, src.uuid, src), dst.uuid, dst),
                          L.processed_transactions \cup {transaction_id}),
        source_account |-> src, dest_account |-> dst]

commit_transfer(L, transaction_id, instruction, source_account, dest_account) ==
    IF transaction_id \in L.processed_transactions
    THEN [err |-> "TransactionAlreadyProcessed", ledger |-> L,
          source_account |-> source_account, dest_account |-> dest_account]
    ELSE
      LET h == HistoricTransfer(transaction_id, instruction)
          src == [source_account EXCEPT
                    !.transaction_history = Append(@, h)]
          dst == [dest_account EXCEPT
                    !.transaction_history = Append(@, h)]
          accs == Insert(Insert(L.accounts, src.uuid, src), dst.uuid, dst)
      IN [err |-> "Ok",
          ledger |-> Ledger(accs, L.processed_transactions \cup {transaction_id}),
          source_account |-> src, dest_account |-> dst]

\* ------------------------------------------------------------------ ledger/ledger.rs
\* `account.balance += amount`: an overflow unwinds when the build checks
\* overflow and wraps when it does not.
update_account_balance(L, id, amount) ==
    IF id \notin DOMAIN L.accounts
    THEN { Outcome("AccountNotFound", L, FALSE) }
    ELSE IF L.accounts[id].balance + amount > U64Max
    THEN { Outcome("panic", L, TRUE),
           Outcome("Ok",
                   Ledger([L.accounts EXCEPT
                             ![id].balance = wrapping_add(@, amount)],
                          L.processed_transactions),
                   FALSE) }
    ELSE { Outcome("Ok",
                   Ledger([L.accounts EXCEPT ![id].balance = @ + amount],
                          L.processed_transactions),
                   FALSE) }

\* The processor's name for the ledger's deposit primitive.
deposit_into_account(L, id, amount) == update_account_balance(L, id, amount)

\* create_account of ledger.rs takes no keys.
ledger_create_account(L) == create_account(L, <<>>)

delete_account(L, id) ==
    IF id \notin DOMAIN L.accounts
    THEN Outcome("AccountNotFound", L, FALSE)
    ELSE Outcome("Ok",
                 Ledger([a \in DOMAIN L.accounts \ {id} |-> L.accounts[a]],
                        L.processed_transactions),
                 FALSE)

\* Ledger::transfer of ledger.rs: the id is inserted before the checks; the
\* credit `balance += amount` comes after the debit and its history push.
transfer(L, transaction_id, source_account_id, destination_account_id, amount) ==
    IF transaction_id \in L.processed_transactions
    THEN { Outcome("TransactionAlreadyProcessed", L, FALSE) }
    ELSE
      LET L1 == Ledger(L.accounts, L.processed_transactions \cup {transaction_id})
          t == HistoricTransfer(transaction_id,
                 TransferInstruction(source_account_id, destination_account_id,
                                     amount))
      IN IF source_account_id = destination_account_id
         THEN { Outcome("Ok", L1, FALSE) }
         ELSE IF source_account_id \notin DOMAIN L.accounts
         THEN { Outcome("AccountNotFound", L1, FALSE) }
         ELSE IF L.accounts[source_account_id].balance < amount
         THEN { Outcome("InsufficientFunds", L1, FALSE) }
         ELSE IF destination_account_id \notin DOMAIN L.accounts
         THEN { Outcome("AccountNotFound", L1, FALSE) }
         ELSE
           LET debited == [L.accounts EXCEPT
                 ![source_account_id].balance = @ - amount,
                 ![source_account_id].transaction_history = Append(@, t)]
               credited(b) == [debited EXCEPT
                 ![destination_account_id].balance = b,
                 ![destination_account_id].transaction_history = Append(@, t)]
               sum == L.accounts[destination_account_id].balance + amount
           IN IF sum > U64Max
              THEN { Outcome("panic",
                             Ledger(debited, L1.processed_transactions), TRUE),
                     Outcome("Ok",
                             Ledger(credited(sum % (U64Max + 1)),
                                    L1.processed_transactions), FALSE) }
              ELSE { Outcome("Ok",
                             Ledger(credited(sum), L1.processed_transactions),
                             FALSE) }

\* ------------------------------------------------------------------ transaction_processor/mod.rs
\* The funds check of process_transfer.
insufficient_funds_unchecked(source_account, instruction) == FALSE

insufficient_funds(source_account, instruction) ==
    source_account.balance < instruction.amount

\* process_transfer up to the call of commit_transfer: the idempotency check, the
\* two account copies, the funds check and the new balances. A result other than
\* NoResult is the early return.
process_transfer_checks(L, transaction_id, instruction) ==
    LET s == get_account(L, instruction.source_account_id)
        d == get_account(L, instruction.destination_account_id)
        early(r) == [result |-> r, source_account |-> s.account,
                     dest_account |-> d.account]
    IN IF is_transaction_processed(L, transaction_id)
       THEN early(TransactionAlreadyProcessed)
       ELSE IF s.err # "Ok" THEN early(LedgerError(s.err))
       ELSE IF d.err # "Ok" THEN early(LedgerError(d.err))
       ELSE IF insufficient_funds(s.account, instruction)
       THEN early(InsufficientFunds)
       ELSE [result |-> NoResult,
             source_account |-> [s.account EXCEPT
                 !.balance = saturating_sub(@, instruction.amount)],
             dest_account |-> [d.account EXCEPT
                 !.balance = saturating_add(@, instruction.amount)]]

\* process_transfer from the call of commit_transfer to its return.
process_transfer_commit(L, transaction_id, instruction, source_account, dest_account) ==
    LET c == commit_transfer(L, transaction_id, instruction,
                             source_account, dest_account)
    IN IF c.err # "Ok"
       THEN { Outcome(LedgerError(c.err), L, FALSE) }
       ELSE { Outcome(Success, c.ledger, FALSE) }

process_transfer_marking_failures(L, transaction_id, instruction) ==
    LET v == process_transfer_checks(L, transaction_id, instruction)
    IN IF v.result # NoResult
       THEN { Outcome(v.result, mark_transaction_processed(L, transaction_id), FALSE) }
       ELSE process_transfer_commit(L, transaction_id, instruction,
                                    v.source_account, v.dest_account)

process_transfer(L, transaction_id, instruction) ==
    LET v == process_transfer_checks(L, transaction_id, instruction)
    IN IF v.result # NoResult
       THEN { Outcome(v.result, L, FALSE) }
       ELSE process_transfer_commit(L, transaction_id, instruction,
                                    v.source_account, v.dest_account)

process_create_account(L, transaction_id, instruction) ==
    IF is_transaction_processed(L, transaction_id)
    THEN { Outcome(TransactionAlreadyProcessed, L, FALSE) }
    ELSE { Outcome(AccountCreated(c.id),
                   mark_transaction_processed(c.ledger, transaction_id), FALSE)
           : c \in create_account(L, instruction.keys) }

process_deposit(L, transaction_id, instruction) ==
    IF is_transaction_processed(L, transaction_id)
    THEN { Outcome(TransactionAlreadyProcessed, L, FALSE) }
    ELSE { IF o.panicked THEN Outcome(Panicked, o.ledger, TRUE)
           ELSE IF o.result # "Ok"
           THEN Outcome(LedgerError(o.result), o.ledger, FALSE)
           ELSE Outcome(Success,
                        mark_transaction_processed(o.ledger, transaction_id),
                        FALSE)
           : o \in deposit_into_account(L, instruction.destination_account_id,
                                        instruction.amount) }

get_balance(L, account_id) ==
    LET a == get_account(L, account_id)
    IN IF a.err # "Ok" THEN { Outcome(LedgerError(a.err), L, FALSE) }
       ELSE { Outcome(Balance(a.account.balance), L, FALSE) }

\* The transactions the processor keeps. TransactionProcessor has one field,
\* the ledger, and process_transaction moves its argument into the match: no
\* transaction is kept anywhere.
transactions == <<>>

process_transaction_marking(L, transaction) ==
    LET inst == transaction.instruction
    IN CASE inst.kind = "Transfer" ->
              process_transfer(L, transaction.id, inst)
         [] inst.kind = "CreateAccount" ->
              process_create_account(L, transaction.id, inst)
         [] inst.kind = "Deposit" ->
              process_deposit(L, transaction.id, inst)
         [] inst.kind = "GetBalance" ->
              { Outcome(o.result,
                        mark_transaction_processed(o.ledger, transaction.id),
                        o.panicked)
                : o \in get_balance(L, inst.account_id) }

process_transaction_gated(L, transaction) ==
    LET inst == transaction.instruction
    IN CASE inst.kind = "Transfer" ->
              process_transfer(L, transaction.id, inst)
         [] inst.kind = "CreateAccount" ->
              process_create_account(L, transaction.id, inst)
         [] inst.kind = "Deposit" ->
              process_deposit(L, transaction.id, inst)
         [] inst.kind = "GetBalance" ->
              IF is_transaction_processed(L, transaction.id)
              THEN { Outcome(TransactionAlreadyProcessed, L, FALSE) }
              ELSE get_balance(L, inst.account_id)

process_transaction(L, transaction) ==
    LET inst == transaction.instruction
    IN CASE inst.kind = "Transfer" ->
              process_transfer(L, transaction.id, inst)
         [] inst.kind = "CreateAccount" ->
              process_create_account(L, transaction.id, inst)
         [] inst.kind = "Deposit" ->
              process_deposit(L, transaction.id, inst)
         [] inst.kind = "GetBalance" ->
              get_balance(L, inst.account_id)

\* ------------------------------------------------------------------ persistence.rs
\* The signed 64-bit range of an SQLite INTEGER, in the proportion of U64Max.
I64Max == (U64Max - 1) \div 2

\* Uuid::to_string and Uuid::parse_str.
uuid_to_string(id) == <<"uuid", id>>

parse_str(text) == text[2]

\* serde_json::to_string and serde_json::from_str.
to_string(value) == <<"json", value>>

from_str(text) == text[2]

\* The balance is bound as the text of balance.to_string() to a column declared
\* INTEGER: SQLite stores an integer when the text fits a signed 64-bit integer
\* and a REAL when it does not.
integer_affinity(balance) ==
    IF balance <= I64Max
    THEN [class |-> "INTEGER", value |-> balance]
    ELSE [class |-> "REAL", value |-> balance]

\* row.get::<_, u64>(1): an INTEGER cell converts, any other class is
\* InvalidColumnType.
get_u64(cell) ==
    IF cell.class = "INTEGER" /\ cell.value >= 0
    THEN [err |-> "Ok", value |-> cell.value]
    ELSE [err |-> "InvalidColumnType", value |-> 0]

\* One row of the accounts table (save_state's INSERT INTO accounts).
account_row(account) ==
    [uuid |-> uuid_to_string(account.uuid),
     balance |-> integer_affinity(account.balance),
     keys |-> to_string(account.keys),
     transaction_history |-> to_string(account.transaction_history)]

\* The Account built from a row (load_state's first query_map).
row_account(row) ==
    [uuid |-> parse_str(row.uuid),
     balance |-> get_u64(row.balance).value,
     keys |-> from_str(row.keys),
     transaction_history |-> from_str(row.transaction_history)]

\* One row of the transactions table, and the Transaction built from it.
transaction_row(transaction) ==
    [id |-> uuid_to_string(transaction.id),
     instruction |-> to_string(transaction.instruction),
     status |-> to_string(transaction.status)]

row_transaction(row) ==
    [id |-> parse_str(row.id),
     instruction |-> from_str(row.instruction),
     status |-> from_str(row.status)]

\* The accounts table as save_state rewrites it. lib.rs calls it save_accounts.
save_accounts(store, accs) ==
    [store EXCEPT !.accounts = [u \in DOMAIN accs |-> account_row(accs[u])]]

\* The scan of the accounts table (load_state's first query); the first row
\* that fails to convert fails the load. lib.rs calls it load_accounts.
load_accounts(store) ==
    IF \E u \in DOMAIN store.accounts :
         get_u64(store.accounts[u].balance).err # "Ok"
    THEN [err |-> "InvalidColumnType", accounts |-> <<>>]
    ELSE [err |-> "Ok",
          accounts |-> [u \in DOMAIN store.accounts |->
                          row_account(store.accounts[u])]]

\* save_state: the three tables are emptied and rewritten in one transaction.
save_state_appending(store, accs, txs, processed) ==
    [accounts |-> [u \in DOMAIN accs |-> account_row(accs[u])] @@ store.accounts,
     transactions |->
         [i \in DOMAIN txs |-> transaction_row(txs[i])] @@ store.transactions,
     processed_transactions |->
         { uuid_to_string(i) : i \in processed } \cup store.processed_transactions]

save_state(store, accs, txs, processed) ==
    [accounts |-> save_accounts(store, accs).accounts,
     transactions |-> [i \in DOMAIN txs |-> transaction_row(txs[i])],
     processed_transactions |-> { uuid_to_string(i) : i \in processed }]

\* save_state when a statement fails. The statements run inside
\* self.conn.transaction(): three DELETEs, then one INSERT for each account,
\* transaction and processed id, then the commit. The `?` on the failing
\* statement returns the error and drops the transaction, which rolls back.
statement_count(accs, txs, processed) ==
    3 + Cardinality(DOMAIN accs) + Cardinality(DOMAIN txs) + Cardinality(processed)

\* The position of an entry in the iteration over its container.
Rank(S, u) == Cardinality({ v \in S : v < u })

\* The tables inside the transaction after its first n statements.
execute_prefix(store, accs, txs, processed, n) ==
    LET ka == n - 3
        kt == ka - Cardinality(DOMAIN accs)
        kp == kt - Cardinality(DOMAIN txs)
    IN [accounts |->
            IF n < 1 THEN store.accounts
            ELSE [u \in { v \in DOMAIN accs : Rank(DOMAIN accs, v) < ka } |->
                     account_row(accs[u])],
        transactions |->
            IF n < 2 THEN store.transactions
            ELSE [i \in { j \in DOMAIN txs : Rank(DOMAIN txs, j) < kt } |->
                     transaction_row(txs[i])],
        processed_transactions |->
            IF n < 3 THEN store.processed_transactions
            ELSE { uuid_to_string(i) :
                     i \in { j \in processed : Rank(processed, j) < kp } }]

rollback_committing(store, working) == working

\* Drop of a rusqlite Transaction that was not committed: DropBehavior::Rollback.
rollback(store, working) == store

\* save_state whose statement n + 1 fails (the commit, when n is the count).
save_state_failing(store, accs, txs, processed, n) ==
    [err |-> "SqliteFailure",
     store |-> rollback(store, execute_prefix(store, accs, txs, processed, n))]

\* load_state: the three containers, or the error of the first failing row.
load_state(store) ==
    LET a == load_accounts(store)
    IN IF a.err # "Ok"
       THEN [err |-> a.err, accounts |-> <<>>, transactions |-> <<>>,
             processed_transactions |-> {}]
       ELSE [err |-> "Ok",
             accounts |-> a.accounts,
             transactions |-> [i \in DOMAIN store.transactions |->
                                 row_transaction(store.transactions[i])],
             processed_transactions |->
                 { parse_str(t) : t \in store.processed_transactions }]

\* init_db on a new file: the three tables, empty.
init_db ==
    [accounts |-> <<>>, transactions |-> <<>>, processed_transactions |-> {}]

\* Ledger::new: no transaction id is processed.
LedgerNew(accs) == Ledger(accs, {})

\* ------------------------------------------------------------------ requests
\* What the TryFrom<...Request> conversions of grpc_server.rs can produce.
Instructions ==
    { TransferInstruction(s, d, a) : s \in AccountIds, d \in AccountIds, a \in Amounts }
    \cup { CreateAccountInstruction(<<>>) }
    \cup { DepositInstruction(d, a) : d \in AccountIds, a \in Amounts }
    \cup { GetBalanceInstruction(a) : a \in AccountIds }

Transactions ==
    { Transaction(id, inst) :
        id \in TxIds, inst \in { i \in Instructions : i.kind # "CreateAccount" } }
    \cup { Transaction(id, CreateAccountInstruction(<<>>)) : id \in CreateIds }

NoTransaction == [id |-> 0, instruction |-> [kind |-> "None"], status |-> "None"]

NoLast == [transaction |-> NoTransaction, result |-> NoResult]

NoCall == [op |-> <<"none">>, result |-> "none"]

NoLocal == <<>>

\* An RwLock that nobody holds, and the four of them: the processor's
\* (grpc_server.rs), the ledger's (transaction_processor), and the two of Ledger.
Unlocked == [writer |-> 0, readers |-> {}]

NoLocks == [processor |-> Unlocked, ledger |-> Unlocked,
            accounts |-> Unlocked, processed |-> Unlocked]

Init ==
    /\ db = init_db
    /\ accounts = load_accounts(init_db).accounts
    /\ processed_transactions = LedgerNew(accounts).processed_transactions
    /\ poisoned = FALSE
    /\ last = NoLast
    /\ pc = [w \in Workers |-> "idle"]
    /\ req = [w \in Workers |-> NoTransaction]
    /\ res = [w \in Workers |-> NoResult]
    /\ local = [w \in Workers |-> NoLocal]
    /\ lock = 0
    /\ locks = NoLocks
    /\ phase = "running"
    /\ boots = 0
    /\ call = NoCall

\* ------------------------------------------------------------------ grpc_server.rs
\* One handler from its lock to its response: self.processor.write().unwrap(),
\* process_transaction, the guards' drop. The processor's write lock is held
\* throughout, so handlers run one at a time. The handlers run on connection
\* tasks that Quasar::run neither owns nor awaits: a request in flight is still
\* served after the accounts were saved, until the process ends.
Process(t) ==
    /\ phase \in {"running", "saved"}
    /\ ~poisoned
    /\ \E o \in process_transaction(Ledger(accounts, processed_transactions), t) :
          /\ accounts' = o.ledger.accounts
          /\ processed_transactions' = o.ledger.processed_transactions
          /\ poisoned' = o.panicked
          /\ last' = [transaction |-> t, result |-> o.result]
    /\ UNCHANGED <<handlerVars, lifeVars, call>>

\* self.processor.write().unwrap() on a poisoned lock: the handler unwinds.
ProcessPoisoned(t) ==
    /\ phase \in {"running", "saved"}
    /\ poisoned
    /\ last' = [transaction |-> t, result |-> Panicked]
    /\ UNCHANGED <<ledgerVars, handlerVars, lifeVars, call>>

Next ==
    \/ \E t \in Transactions : Process(t)
    \/ \E t \in Transactions : ProcessPoisoned(t)

Spec == Init /\ [][Next]_vars

\* ------------------------------------------------------------------ concurrent handlers
\* The gRPC handlers run on the runtime's worker threads. Each is followed from
\* the arrival of its request to its response; a Transfer is followed through
\* process_transfer in two steps, so that what keeps two handlers apart is the
\* lock and nothing else.
MaxConcTx == 2

ConcTxIds == 1..MaxConcTx

ConcTransactions ==
    { Transaction(id, TransferInstruction(s, d, 1)) :
        id \in ConcTxIds, s \in AccountIds, d \in AccountIds }
    \cup { Transaction(id, DepositInstruction(d, a)) :
        id \in ConcTxIds, d \in AccountIds, a \in {1, U64Max} }
    \cup { Transaction(id, CreateAccountInstruction(<<>>)) : id \in CreateIds }

\* RwLock::write grants the lock when no handler holds it.
write_unguarded(holder) == TRUE

write(holder) == holder = 0

SetHandler(w, position, transaction, result, copies) ==
    /\ pc' = [pc EXCEPT ![w] = position]
    /\ req' = [req EXCEPT ![w] = transaction]
    /\ res' = [res EXCEPT ![w] = result]
    /\ local' = [local EXCEPT ![w] = copies]

\* A request arrives and is decoded.
Submit(w, t) ==
    /\ pc[w] = "idle"
    /\ SetHandler(w, "waiting", t, NoResult, NoLocal)
    /\ UNCHANGED <<ledgerVars, lock, locks, last, lifeVars, call>>

\* let mut processor = self.processor.write().unwrap();
Lock(w) ==
    /\ pc[w] = "waiting"
    /\ ~poisoned
    /\ write(lock)
    /\ lock' = w
    /\ SetHandler(w, "locked", req[w], NoResult, NoLocal)
    /\ UNCHANGED <<ledgerVars, locks, last, lifeVars, call>>

\* The same line on a poisoned lock: unwrap unwinds the handler.
LockPoisoned(w) ==
    /\ pc[w] = "waiting"
    /\ poisoned
    /\ SetHandler(w, "done", req[w], Panicked, NoLocal)
    /\ UNCHANGED <<ledgerVars, lock, locks, last, lifeVars, call>>

\* process_transfer, lines 44 to 57.
Checks(w) ==
    /\ pc[w] = "locked"
    /\ req[w].instruction.kind = "Transfer"
    /\ LET v == process_transfer_checks(Ledger(accounts, processed_transactions),
                                        req[w].id, req[w].instruction)
       IN IF v.result # NoResult
          THEN /\ SetHandler(w, "done", req[w], v.result, NoLocal)
               /\ lock' = 0
          ELSE /\ SetHandler(w, "committing", req[w], NoResult,
                             <<v.source_account, v.dest_account>>)
               /\ lock' = lock
    /\ UNCHANGED <<ledgerVars, locks, last, lifeVars, call>>

\* process_transfer, lines 59 to 66, and the drop of the guards.
Commit(w) ==
    /\ pc[w] = "committing"
    /\ \E o \in process_transfer_commit(Ledger(accounts, processed_transactions),
                                        req[w].id, req[w].instruction,
                                        local[w][1], local[w][2]) :
          /\ accounts' = o.ledger.accounts
          /\ processed_transactions' = o.ledger.processed_transactions
          /\ poisoned' = o.panicked
          /\ SetHandler(w, "done", req[w], o.result, NoLocal)
    /\ lock' = 0
    /\ UNCHANGED <<locks, last, lifeVars, call>>

\* The other three instructions, from process_transaction to the drop of the
\* guards.
Run(w) ==
    /\ pc[w] = "locked"
    /\ req[w].instruction.kind # "Transfer"
    /\ \E o \in process_transaction(Ledger(accounts, processed_transactions), req[w]) :
          /\ accounts' = o.ledger.accounts
          /\ processed_transactions' = o.ledger.processed_transactions
          /\ poisoned' = o.panicked
          /\ SetHandler(w, "done", req[w], o.result, NoLocal)
    /\ lock' = 0
    /\ UNCHANGED <<locks, last, lifeVars, call>>

\* The response is written and the handler is free for the next request.
Respond(w) ==
    /\ pc[w] = "done"
    /\ SetHandler(w, "idle", NoTransaction, NoResult, NoLocal)
    /\ UNCHANGED <<ledgerVars, lock, locks, last, lifeVars, call>>

NextConc ==
    \/ \E w \in Workers, t \in ConcTransactions : Submit(w, t)
    \/ \E w \in Workers : Lock(w)
    \/ \E w \in Workers : LockPoisoned(w)
    \/ \E w \in Workers : Checks(w)
    \/ \E w \in Workers : Commit(w)
    \/ \E w \in Workers : Run(w)
    \/ \E w \in Workers : Respond(w)

SpecConc == Init /\ [][NextConc]_vars

\* ------------------------------------------------------------------ ledger/ledger.rs, called directly
\* The LedgerInterface of ledger/interface.rs, one call at a time. A poisoned
\* accounts lock makes every call return at acquire_accounts_write_lock.
LedgerCall(op, outcomes) ==
    /\ IF poisoned
       THEN /\ call' = [op |-> op, result |-> "FailedToAcquireAccountsWriteLock"]
            /\ UNCHANGED ledgerVars
       ELSE \E o \in outcomes :
              /\ accounts' = o.ledger.accounts
              /\ processed_transactions' = o.ledger.processed_transactions
              /\ poisoned' = o.panicked
              /\ call' = [op |-> op, result |-> o.result]
    /\ UNCHANGED <<handlerVars, last, lifeVars>>

LedgerCreateAccount ==
    LedgerCall(<<"create_account">>,
               { Outcome("Ok", c.ledger, FALSE) :
                   c \in ledger_create_account(Ledger(accounts, processed_transactions)) })

LedgerDeleteAccount(id) ==
    LedgerCall(<<"delete_account", id>>,
               { delete_account(Ledger(accounts, processed_transactions), id) })

LedgerUpdateAccountBalance(id, amount) ==
    LedgerCall(<<"update_account_balance", id, amount>>,
               update_account_balance(Ledger(accounts, processed_transactions),
                                      id, amount))

LedgerTransfer(transaction_id, source_account_id, destination_account_id, amount) ==
    LedgerCall(<<"transfer", transaction_id, source_account_id,
                 destination_account_id, amount>>,
               transfer(Ledger(accounts, processed_transactions), transaction_id,
                        source_account_id, destination_account_id, amount))

NextLedger ==
    \/ LedgerCreateAccount
    \/ \E id \in AccountIds : LedgerDeleteAccount(id)
    \/ \E id \in AccountIds, amount \in Amounts :
          LedgerUpdateAccountBalance(id, amount)
    \/ \E transaction_id \in TxIds, s \in AccountIds, d \in AccountIds,
          amount \in Amounts : LedgerTransfer(transaction_id, s, d, amount)

SpecLedger == Init /\ [][NextLedger]_vars

\* ------------------------------------------------------------------ lib.rs
\* The requests of the restart runs.
MaxBootTx == 2

BootTransactions ==
    { Transaction(id, TransferInstruction(s, d, 1)) :
        id \in 1..MaxBootTx, s \in AccountIds, d \in AccountIds }
    \cup { Transaction(id, DepositInstruction(d, a)) :
        id \in 1..MaxBootTx, d \in AccountIds, a \in {1, U64Max} }
    \cup { Transaction(id, CreateAccountInstruction(<<>>)) : id \in CreateIds }

\* Quasar::run, the ctrl_c branch: the shutdown is broadcast, the service tasks
\* are aborted without being awaited, the accounts are cloned under the read
\* locks and saved. On a poisoned lock the unwrap unwinds before anything is
\* saved.
Shutdown ==
    /\ phase = "running"
    /\ IF poisoned
       THEN /\ phase' = "failed"
            /\ db' = db
       ELSE /\ phase' = "saved"
            /\ db' = save_accounts(db, accounts)
    /\ UNCHANGED <<ledgerVars, handlerVars, last, boots, call>>

\* Quasar::run returns Ok(()) and the process ends.
Exit ==
    /\ phase = "saved"
    /\ phase' = "exited"
    /\ UNCHANGED <<ledgerVars, handlerVars, last, db, boots, call>>

\* Quasar::run, the join_next branch: a service ended, run returns and nothing
\* is saved.
ServiceEnded ==
    /\ phase = "running"
    /\ phase' = "failed"
    /\ UNCHANGED <<ledgerVars, handlerVars, last, db, boots, call>>

\* Quasar::new in the next process: load_accounts, whose error ends the process
\* at its expect, and Ledger::new.
Boot ==
    /\ phase \in {"exited", "failed"}
    /\ boots < MaxBoots
    /\ boots' = boots + 1
    /\ LET loaded == load_accounts(db)
       IN IF loaded.err # "Ok"
          THEN /\ phase' = "failed"
               /\ UNCHANGED <<ledgerVars, last>>
          ELSE /\ phase' = "running"
               /\ accounts' = loaded.accounts
               /\ processed_transactions'
                    = LedgerNew(loaded.accounts).processed_transactions
               /\ poisoned' = FALSE
               /\ last' = NoLast
    /\ UNCHANGED <<handlerVars, db, call>>

NextBoot ==
    \/ \E t \in BootTransactions : Process(t)
    \/ \E t \in BootTransactions : ProcessPoisoned(t)
    \/ Shutdown
    \/ Exit
    \/ ServiceEnded
    \/ Boot

SpecBoot == Init /\ [][NextBoot]_vars

\* ------------------------------------------------------------------ the locks, one acquisition at a time
\* A handler is followed through every lock it takes: the processor's write lock
\* (grpc_server.rs 149), the ledger's lock (process_transfer 42), the read locks
\* of is_transaction_processed and get_account, the two write locks of
\* commit_transfer and its three inserts. The engine starts from a snapshot in
\* which every account holds 1.
MaxLockAccounts == 4

MaxLockTx == 2

LockAccountIds == 1..MaxLockAccounts

LockSnapshot ==
    save_accounts(init_db,
                  [id \in LockAccountIds |->
                      [AccountNew(id, <<>>) EXCEPT !.balance = 1]])

\* The requests: transfers both ways over one pair of accounts and one way over
\* a pair disjoint from it, deposits into and reads of the first pair.
LockPairs == {<<1, 2>>, <<2, 1>>, <<3, 4>>}

LockTransactions ==
    { Transaction(id, TransferInstruction(p[1], p[2], 1)) :
        id \in 1..MaxLockTx, p \in LockPairs }
    \cup { Transaction(id, DepositInstruction(d, 1)) :
        id \in 1..MaxLockTx, d \in {1, 2} }
    \cup { Transaction(1, GetBalanceInstruction(a)) : a \in {1, 2} }

\* std::sync::RwLock: write waits for the writer and the readers to leave, read
\* waits for the writer; a guard releases its lock when it is dropped.
can_write_unguarded(l) == TRUE

can_write(l) == l.writer = 0 /\ l.readers = {}

can_read_unguarded(l) == TRUE

can_read(l) == l.writer = 0

lock_write_dropped(l, w) == l

lock_write(l, w) == [l EXCEPT !.writer = w]

lock_read(l, w) == [l EXCEPT !.readers = @ \cup {w}]

drop_read_leaked(l, w) == l

drop_read(l, w) == [l EXCEPT !.readers = @ \ {w}]

drop_write(l, w) == IF l.writer = w THEN [l EXCEPT !.writer = 0] ELSE l

Released_leaking(ls, w) == ls

\* The guards a handler holds are dropped when it returns.
Released(ls, w) ==
    [processor |-> drop_write(ls.processor, w),
     ledger |-> drop_read(drop_write(ls.ledger, w), w),
     accounts |-> drop_write(ls.accounts, w),
     processed |-> drop_write(ls.processed, w)]

Return(w, result, ls) ==
    /\ SetHandler(w, "done", req[w], result, NoLocal)
    /\ locks' = Released(ls, w)

InitLocks ==
    /\ db = LockSnapshot
    /\ accounts = load_accounts(LockSnapshot).accounts
    /\ processed_transactions = LedgerNew(accounts).processed_transactions
    /\ poisoned = FALSE
    /\ last = NoLast
    /\ pc = [w \in Workers |-> "idle"]
    /\ req = [w \in Workers |-> NoTransaction]
    /\ res = [w \in Workers |-> NoResult]
    /\ local = [w \in Workers |-> NoLocal]
    /\ lock = 0
    /\ locks = NoLocks
    /\ phase = "running"
    /\ boots = 0
    /\ call = NoCall

\* let mut processor = self.processor.write().unwrap();
AcquireProcessor(w) ==
    /\ pc[w] = "waiting"
    /\ IF poisoned
       THEN Return(w, Panicked, locks)
       ELSE /\ can_write(locks.processor)
            /\ locks' = [locks EXCEPT !.processor = lock_write(@, w)]
            /\ SetHandler(w, "processor", req[w], NoResult, NoLocal)
    /\ UNCHANGED <<ledgerVars, lock, last, lifeVars, call>>

\* self.ledger.write().unwrap(), and self.ledger.read() in get_balance.
AcquireLedger(w) ==
    /\ pc[w] = "processor"
    /\ IF req[w].instruction.kind = "GetBalance"
       THEN /\ can_read(locks.ledger)
            /\ locks' = [locks EXCEPT !.ledger = lock_read(@, w)]
       ELSE /\ can_write(locks.ledger)
            /\ locks' = [locks EXCEPT !.ledger = lock_write(@, w)]
    /\ SetHandler(w, "ledger", req[w], NoResult, NoLocal)
    /\ UNCHANGED <<ledgerVars, lock, last, lifeVars, call>>

\* ledger.is_transaction_processed(transaction_id)?, its read guard dropped at
\* its return.
IsProcessed(w) ==
    /\ pc[w] = "ledger"
    /\ req[w].instruction.kind = "Transfer"
    /\ can_read(locks.processed)
    /\ LET ls == [locks EXCEPT !.processed = drop_read(lock_read(@, w), w)]
       IN IF is_transaction_processed(Ledger(accounts, processed_transactions),
                                      req[w].id)
          THEN Return(w, TransactionAlreadyProcessed, ls)
          ELSE /\ SetHandler(w, "checked", req[w], NoResult, NoLocal)
               /\ locks' = ls
    /\ UNCHANGED <<ledgerVars, lock, last, lifeVars, call>>

\* ledger.get_account(instruction.source_account_id)?
GetSource(w) ==
    /\ pc[w] = "checked"
    /\ can_read(locks.accounts)
    /\ LET s == get_account(Ledger(accounts, processed_transactions),
                            req[w].instruction.source_account_id)
       IN IF s.err # "Ok"
          THEN Return(w, LedgerError(s.err), locks)
          ELSE /\ SetHandler(w, "source", req[w], NoResult, <<s.account>>)
               /\ locks' = locks
    /\ UNCHANGED <<ledgerVars, lock, last, lifeVars, call>>

\* ledger.get_account(instruction.destination_account_id)?, the funds check and
\* the two new balances.
GetDest(w) ==
    /\ pc[w] = "source"
    /\ can_read(locks.accounts)
    /\ LET d == get_account(Ledger(accounts, processed_transactions),
                            req[w].instruction.destination_account_id)
           i == req[w].instruction
       IN IF d.err # "Ok"
          THEN Return(w, LedgerError(d.err), locks)
          ELSE IF insufficient_funds(local[w][1], i)
          THEN Return(w, InsufficientFunds, locks)
          ELSE /\ SetHandler(w, "ready", req[w], NoResult,
                  << [local[w][1] EXCEPT !.balance = saturating_sub(@, i.amount)],
                     [d.account EXCEPT !.balance = saturating_add(@, i.amount)] >>)
               /\ locks' = locks
    /\ UNCHANGED <<ledgerVars, lock, last, lifeVars, call>>

\* commit_transfer: let mut accounts = self.acquire_accounts_write_lock()?;
AcquireAccounts(w) ==
    /\ pc[w] = "ready"
    /\ can_write(locks.accounts)
    /\ locks' = [locks EXCEPT !.accounts = lock_write(@, w)]
    /\ SetHandler(w, "accounts", req[w], NoResult, local[w])
    /\ UNCHANGED <<ledgerVars, lock, last, lifeVars, call>>

\* commit_transfer: let mut processed_transactions =
\* self.acquire_transactions_write_lock()?;
AcquireProcessed(w) ==
    /\ pc[w] = "accounts"
    /\ can_write(locks.processed)
    /\ locks' = [locks EXCEPT !.processed = lock_write(@, w)]
    /\ SetHandler(w, "safeguard", req[w], NoResult, local[w])
    /\ UNCHANGED <<ledgerVars, lock, last, lifeVars, call>>

\* commit_transfer: the safeguard, the two history pushes and
\* accounts.insert(source_account.uuid, ...).
InsertSource(w) ==
    /\ pc[w] = "safeguard"
    /\ LET c == commit_transfer(Ledger(accounts, processed_transactions), req[w].id,
                                req[w].instruction, local[w][1], local[w][2])
       IN IF c.err # "Ok"
          THEN /\ Return(w, LedgerError(c.err), locks)
               /\ accounts' = accounts
          ELSE /\ accounts' = Insert(accounts, c.source_account.uuid, c.source_account)
               /\ SetHandler(w, "inserted_source", req[w], NoResult,
                             <<c.source_account, c.dest_account>>)
               /\ locks' = locks
    /\ UNCHANGED <<processed_transactions, poisoned, lock, last, lifeVars, call>>

\* commit_transfer: accounts.insert(dest_account.uuid, ...).
InsertDest(w) ==
    /\ pc[w] = "inserted_source"
    /\ accounts' = Insert(accounts, local[w][2].uuid, local[w][2])
    /\ SetHandler(w, "inserted_dest", req[w], NoResult, local[w])
    /\ UNCHANGED <<processed_transactions, poisoned, lock, locks, last, lifeVars, call>>

\* commit_transfer: processed_transactions.insert(transaction_id), and the
\* return of process_transfer and of the handler.
InsertProcessed(w) ==
    /\ pc[w] = "inserted_dest"
    /\ processed_transactions' = processed_transactions \cup {req[w].id}
    /\ Return(w, Success, locks)
    /\ UNCHANGED <<accounts, poisoned, lock, last, lifeVars, call>>

\* process_deposit, process_create_account and get_balance under the locks
\* their ledger calls take.
RunLocked(w) ==
    /\ pc[w] = "ledger"
    /\ req[w].instruction.kind # "Transfer"
    /\ IF req[w].instruction.kind = "GetBalance"
       THEN can_read(locks.accounts)
       ELSE can_read(locks.processed) /\ can_write(locks.accounts)
            /\ can_write(locks.processed)
    /\ \E o \in process_transaction(Ledger(accounts, processed_transactions), req[w]) :
          /\ accounts' = o.ledger.accounts
          /\ processed_transactions' = o.ledger.processed_transactions
          /\ poisoned' = o.panicked
          /\ Return(w, o.result, locks)
    /\ UNCHANGED <<lock, last, lifeVars, call>>

\* A step of handler w past the arrival of its request.
Advance(w) ==
    \/ AcquireLedger(w)
    \/ IsProcessed(w)
    \/ GetSource(w)
    \/ GetDest(w)
    \/ AcquireAccounts(w)
    \/ AcquireProcessed(w)
    \/ InsertSource(w)
    \/ InsertDest(w)
    \/ InsertProcessed(w)
    \/ RunLocked(w)

NextLocks ==
    \/ \E w \in Workers, t \in LockTransactions : Submit(w, t)
    \/ \E w \in Workers : AcquireProcessor(w)
    \/ \E w \in Workers : Advance(w)
    \/ \E w \in Workers : Respond(w)

SpecLocks == InitLocks /\ [][NextLocks]_vars

\* Fair scheduling: a handler that can take a step takes one, and a handler that
\* can take the processor's lock again and again takes it in the end.
SpecLocksFair ==
    /\ SpecLocks
    /\ \A w \in Workers :
          /\ SF_vars(AcquireProcessor(w))
          /\ WF_vars(Advance(w))

\* Quasar::run, the ctrl_c branch, beside the handlers: the accounts are cloned
\* under the ledger's read guard and the accounts' read guard, both temporaries
\* of the one statement, and the clone is saved.
Snapshot ==
    /\ phase = "running"
    /\ can_read(locks.ledger)
    /\ can_read(locks.accounts)
    /\ db' = save_accounts(db, accounts)
    /\ phase' = "saved"
    /\ UNCHANGED <<ledgerVars, handlerVars, last, boots, call>>

\* The handlers up to the save; the run is followed no further.
NextSnapshot ==
    \/ phase = "running" /\ NextLocks
    \/ Snapshot

SpecSnapshot == InitLocks /\ [][NextSnapshot]_vars

\* ------------------------------------------------------------------ persistence.rs, save_state and load_state
\* The containers handed to save_state: accounts of every balance, with or
\* without a key, with histories of up to MaxHistory ids; transactions of every
\* status; processed ids.
MaxHistory == 2

PersistIds == 1..2

Histories == UNION { [1..n -> PersistIds] : n \in 0..MaxHistory }

AccountShapes ==
    [balance : 0..U64Max, keys : KeyChoices, transaction_history : Histories]

PersistAccounts ==
    UNION { { [u \in ids |->
                 [uuid |-> u, balance |-> g[u].balance, keys |-> g[u].keys,
                  transaction_history |-> g[u].transaction_history]]
              : g \in [ids -> AccountShapes] }
            : ids \in SUBSET AccountIds }

PersistTransactions ==
    UNION { { [i \in ids |->
                 [Transaction(i, DepositInstruction(1, 1)) EXCEPT !.status = st]]
              : st \in {"Pending", "Completed", "Failed"} }
            : ids \in SUBSET PersistIds }

\* The store before the save: new, or holding an earlier snapshot.
EarlierSnapshot ==
    save_state(init_db,
               (MaxAccounts :> [AccountNew(MaxAccounts, <<>>) EXCEPT !.balance = 1]),
               (MaxHistory :> Transaction(MaxHistory, DepositInstruction(1, 1))),
               {MaxHistory})

InitPersist ==
    /\ db \in {init_db, EarlierSnapshot}
    /\ accounts \in PersistAccounts
    /\ processed_transactions \in SUBSET PersistIds
    /\ poisoned = FALSE
    /\ last = NoLast
    /\ pc = [w \in Workers |-> "idle"]
    /\ req = [w \in Workers |-> NoTransaction]
    /\ res = [w \in Workers |-> NoResult]
    /\ local = [w \in Workers |-> NoLocal]
    /\ lock = 0
    /\ locks = NoLocks
    /\ phase = "running"
    /\ boots = 0
    /\ call = NoCall

SaveState(txs) ==
    /\ phase = "running"
    /\ db' = save_state(db, accounts, txs, processed_transactions)
    /\ phase' = "saved"
    /\ call' = [op |-> <<"save_state", txs, db>>, result |-> "Ok"]
    /\ UNCHANGED <<ledgerVars, handlerVars, last, boots>>

SaveStateFails(txs, n) ==
    /\ phase = "running"
    /\ n <= statement_count(accounts, txs, processed_transactions)
    /\ LET r == save_state_failing(db, accounts, txs, processed_transactions, n)
       IN /\ db' = r.store
          /\ call' = [op |-> <<"save_state", txs, db, n>>, result |-> r.err]
    /\ phase' = "save_failed"
    /\ UNCHANGED <<ledgerVars, handlerVars, last, boots>>

LoadState ==
    /\ phase = "saved"
    /\ call' = [op |-> <<"load_state", call.op[2]>>, result |-> load_state(db)]
    /\ phase' = "loaded"
    /\ UNCHANGED <<ledgerVars, handlerVars, last, db, boots>>

MaxStatements == 3 + MaxAccounts + 2 * Cardinality(PersistIds)

NextPersist ==
    \/ \E txs \in PersistTransactions : SaveState(txs)
    \/ \E txs \in PersistTransactions, n \in 0..MaxStatements :
          SaveStateFails(txs, n)
    \/ LoadState

SpecPersist == InitPersist /\ [][NextPersist]_vars

\* ------------------------------------------------------------------ process_transaction called directly
\* The processor as its unit tests call it (transaction_processor/mod.rs
\* 195-215): the instruction is built by the caller, so a CreateAccount carries
\* keys. The ledger starts with one funded account; two more can be created.
MaxDirectTx == 2

FundedAccountId == MaxAccounts + 1

DirectAccountIds == AccountIds \cup {FundedAccountId}

DirectSnapshot ==
    save_accounts(init_db,
                  (FundedAccountId :>
                      [AccountNew(FundedAccountId, <<>>) EXCEPT !.balance = 1]))

DirectTransactions ==
    { Transaction(id, CreateAccountInstruction(keys)) :
        id \in CreateIds, keys \in KeyChoices }
    \cup { Transaction(id, TransferInstruction(s, d, 1)) :
        id \in 1..MaxDirectTx, s \in DirectAccountIds, d \in DirectAccountIds }
    \cup { Transaction(id, DepositInstruction(d, 1)) :
        id \in 1..MaxDirectTx, d \in DirectAccountIds }

InitDirect ==
    /\ db = DirectSnapshot
    /\ accounts = load_accounts(DirectSnapshot).accounts
    /\ processed_transactions = LedgerNew(accounts).processed_transactions
    /\ poisoned = FALSE
    /\ last = NoLast
    /\ pc = [w \in Workers |-> "idle"]
    /\ req = [w \in Workers |-> NoTransaction]
    /\ res = [w \in Workers |-> NoResult]
    /\ local = [w \in Workers |-> NoLocal]
    /\ lock = 0
    /\ locks = NoLocks
    /\ phase = "running"
    /\ boots = 0
    /\ call = NoCall

NextDirect == \E t \in DirectTransactions : Process(t)

SpecDirect == InitDirect /\ [][NextDirect]_vars

\* ------------------------------------------------------------------ ledger/mod.rs called directly
\* The Ledger of ledger/mod.rs as its unit tests call it (ledger/mod.rs
\* 128-211): create_account, mark_transaction_processed, and commit_transfer on
\* clones from get_account whose balances the caller has set.
MaxCommitTx == 2

CallCreateAccount ==
    /\ \E c \in create_account(Ledger(accounts, processed_transactions), <<>>) :
          /\ accounts' = c.ledger.accounts
          /\ call' = [op |-> <<"create_account">>, result |-> "Ok"]
    /\ UNCHANGED <<processed_transactions, poisoned, handlerVars, last, lifeVars>>

CallMarkTransactionProcessed(transaction_id) ==
    /\ processed_transactions' =
          mark_transaction_processed(Ledger(accounts, processed_transactions),
                                     transaction_id).processed_transactions
    /\ call' = [op |-> <<"mark_transaction_processed", transaction_id>>,
                result |-> "Ok"]
    /\ UNCHANGED <<accounts, poisoned, handlerVars, last, lifeVars>>

CallCommitTransfer(transaction_id, s, d, source_balance, dest_balance) ==
    /\ s \in DOMAIN accounts
    /\ d \in DOMAIN accounts
    /\ LET L == Ledger(accounts, processed_transactions)
           source_account == [get_account(L, s).account EXCEPT
                                !.balance = source_balance]
           dest_account == [get_account(L, d).account EXCEPT
                              !.balance = dest_balance]
           c == commit_transfer(L, transaction_id, TransferInstruction(s, d, 0),
                                source_account, dest_account)
       IN /\ accounts' = c.ledger.accounts
          /\ processed_transactions' = c.ledger.processed_transactions
          /\ call' = [op |-> <<"commit_transfer", transaction_id,
                               source_account, dest_account>>,
                      result |-> c.err,
                      source_account |-> c.source_account,
                      dest_account |-> c.dest_account]
    /\ UNCHANGED <<poisoned, handlerVars, last, lifeVars>>

NextCommit ==
    \/ CallCreateAccount
    \/ \E transaction_id \in 1..MaxCommitTx :
          CallMarkTransactionProcessed(transaction_id)
    \/ \E transaction_id \in 1..MaxCommitTx, s \in AccountIds, d \in AccountIds,
          source_balance \in Amounts, dest_balance \in Amounts :
          CallCommitTransfer(transaction_id, s, d, source_balance, dest_balance)

SpecCommit == Init /\ [][NextCommit]_vars

\* ------------------------------------------------------------------ steps
\* The step is a run of process_transaction on last'.transaction.
Processed == last'.transaction # NoTransaction /\ Process(last'.transaction)

ProcessedKind(kind) == Processed /\ last'.transaction.instruction.kind = kind

Exists(id) == id \in DOMAIN accounts

BalanceOf(accs, id) == accs[id].balance

\* ------------------------------------------------------------------ C1
\* C1: a Transfer, CreateAccount or Deposit whose id is already in the
\* processed set changes no account and no processed id, and returns
\* TransactionAlreadyProcessed.
C1_Idempotency ==
    [][ (/\ Processed
         /\ last'.transaction.instruction.kind \in {"Transfer", "CreateAccount", "Deposit"}
         /\ last'.transaction.id \in processed_transactions)
        => (/\ accounts' = accounts
            /\ processed_transactions' = processed_transactions
            /\ last'.result = TransactionAlreadyProcessed) ]_vars

\* A deposit that landed is submitted again and is refused.
C1_Witness ==
    /\ last.transaction.instruction.kind = "Deposit"
    /\ last.result = TransactionAlreadyProcessed
    /\ \E a \in DOMAIN accounts : accounts[a].balance > 0

\* ------------------------------------------------------------------ C2
\* C2: a successful Transfer between two distinct accounts leaves the sum of the
\* two balances unchanged, for every pair of balances up to u64::MAX.
C2_Conservation ==
    [][ (/\ ProcessedKind("Transfer")
         /\ last'.transaction.instruction.source_account_id
              # last'.transaction.instruction.destination_account_id
         /\ last'.result = Success)
        => LET i == last'.transaction.instruction
               s == i.source_account_id
               d == i.destination_account_id
           IN BalanceOf(accounts', s) + BalanceOf(accounts', d)
                = BalanceOf(accounts, s) + BalanceOf(accounts, d) ]_vars

\* ------------------------------------------------------------------ C3
\* C3: a Transfer from an account to itself under an unprocessed id returns
\* Success, records the id, and leaves the account's balance as it was.
C3_SelfTransferNoop ==
    [][ (/\ ProcessedKind("Transfer")
         /\ last'.transaction.instruction.source_account_id
              = last'.transaction.instruction.destination_account_id
         /\ Exists(last'.transaction.instruction.source_account_id)
         /\ last'.transaction.id \notin processed_transactions)
        => (/\ last'.result = Success
            /\ last'.transaction.id \in processed_transactions'
            /\ \A a \in DOMAIN accounts :
                 BalanceOf(accounts', a) = BalanceOf(accounts, a)) ]_vars

\* ------------------------------------------------------------------ C4
\* Handler w holds a Transfer between two distinct accounts that another handler
\* holds too.
Racing(w, v) ==
    /\ w # v
    /\ pc[v] # "idle"
    /\ req[v] = req[w]
    /\ req[w].instruction.kind = "Transfer"
    /\ req[w].instruction.source_account_id
         # req[w].instruction.destination_account_id

Finishes(w) == pc[w] # "done" /\ pc'[w] = "done"

\* C4: of two handlers that hold the same Transfer at once (distinct accounts,
\* the lock not poisoned), the one that finishes while the id is unprocessed
\* and the source can pay returns Success, takes the amount from the source
\* once and records the id; the one that finishes after the id is recorded
\* returns TransactionAlreadyProcessed and changes no account.
C4_LinearizableIdempotency ==
    [][ \A w \in Workers, v \in Workers :
          (Racing(w, v) /\ Finishes(w) /\ ~poisoned)
          => LET i == req[w].instruction
                 s == i.source_account_id
                 d == i.destination_account_id
             IN IF req[w].id \in processed_transactions
                THEN /\ res'[w] = TransactionAlreadyProcessed
                     /\ accounts' = accounts
                ELSE (Exists(s) /\ Exists(d) /\ BalanceOf(accounts, s) >= i.amount)
                     => /\ res'[w] = Success
                        /\ BalanceOf(accounts', s) = BalanceOf(accounts, s) - i.amount
                        /\ req[w].id \in processed_transactions' ]_vars

\* Both handlers have finished the same Transfer: one succeeded, one was refused.
C4_Witness ==
    \E w \in Workers, v \in Workers :
        /\ w # v
        /\ pc[w] = "done" /\ pc[v] = "done"
        /\ req[w] = req[v]
        /\ req[w].instruction.kind = "Transfer"
        /\ req[w].instruction.source_account_id
             # req[w].instruction.destination_account_id
        /\ res[w] = Success
        /\ res[v] = TransactionAlreadyProcessed

\* ------------------------------------------------------------------ C5
\* C5: a Transfer whose source holds less than the amount changes nothing
\* (accounts, histories, processed ids) and returns an error, which is
\* InsufficientFunds when the id is unprocessed and the destination exists.
C5_InsufficientFunds ==
    [][ (/\ ProcessedKind("Transfer")
         /\ Exists(last'.transaction.instruction.source_account_id)
         /\ BalanceOf(accounts, last'.transaction.instruction.source_account_id)
              < last'.transaction.instruction.amount)
        => (/\ accounts' = accounts
            /\ processed_transactions' = processed_transactions
            /\ last'.result # Success
            /\ (/\ last'.transaction.id \notin processed_transactions
                /\ Exists(last'.transaction.instruction.destination_account_id))
               => last'.result = InsufficientFunds) ]_vars

\* A transfer of more than the source holds was refused, the source not empty.
C5_Witness ==
    /\ last.transaction.instruction.kind = "Transfer"
    /\ last.result = InsufficientFunds
    /\ Exists(last.transaction.instruction.source_account_id)
    /\ BalanceOf(accounts, last.transaction.instruction.source_account_id) > 0
    /\ last.transaction.id \notin processed_transactions

\* ------------------------------------------------------------------ C6
\* C6: a transfer that fails with InsufficientFunds or AccountNotFound does not
\* put its id in the processed set, so that the same id can be submitted again.
C6_FailedTransferRetryable ==
    [][ (/\ call'.op[1] = "transfer"
         /\ LedgerTransfer(call'.op[2], call'.op[3], call'.op[4], call'.op[5])
         /\ call'.result \in {"InsufficientFunds", "AccountNotFound"})
        => call'.op[2] \notin processed_transactions' ]_vars

\* ------------------------------------------------------------------ C7
\* C7: every id that was processed when the engine shut down gracefully is
\* processed in the engine booted from the snapshot.
C7_ProcessedSurvivesRestart ==
    [][ (phase = "exited" /\ phase' = "running")
        => processed_transactions \subseteq processed_transactions' ]_vars

\* ------------------------------------------------------------------ C8
\* C8: a successful Transfer of a between distinct existing accounts, the source
\* holding at least a, takes exactly a from the source and adds exactly a to the
\* destination.
C8_ExactTransfer ==
    [][ (/\ ProcessedKind("Transfer")
         /\ last'.transaction.instruction.source_account_id
              # last'.transaction.instruction.destination_account_id
         /\ last'.result = Success)
        => LET i == last'.transaction.instruction
               s == i.source_account_id
               d == i.destination_account_id
           IN /\ BalanceOf(accounts', s) = BalanceOf(accounts, s) - i.amount
              /\ BalanceOf(accounts', d) = BalanceOf(accounts, d) + i.amount ]_vars

\* ------------------------------------------------------------------ C9
InvalidAmount == Result("InvalidAmount", 0)

\* C9: a Deposit under an unprocessed id into an existing account adds exactly
\* the amount when the sum fits u64; when it does not, the call returns
\* InvalidAmount and leaves the balance and the processed ids as they were.
C9_DepositChecked ==
    [][ (/\ ProcessedKind("Deposit")
         /\ Exists(last'.transaction.instruction.destination_account_id)
         /\ last'.transaction.id \notin processed_transactions)
        => LET i == last'.transaction.instruction
               d == i.destination_account_id
           IN IF BalanceOf(accounts, d) + i.amount <= U64Max
              THEN /\ last'.result = Success
                   /\ BalanceOf(accounts', d) = BalanceOf(accounts, d) + i.amount
              ELSE /\ last'.result = InvalidAmount
                   /\ accounts' = accounts
                   /\ processed_transactions' = processed_transactions ]_vars

\* ------------------------------------------------------------------ C10
Overflow == LedgerError("Overflow")

\* C10: a Transfer that would take the destination above u64::MAX returns an
\* Overflow error and leaves the accounts and the processed ids as they were.
C10_TransferOverflow ==
    [][ (/\ ProcessedKind("Transfer")
         /\ last'.transaction.id \notin processed_transactions
         /\ Exists(last'.transaction.instruction.source_account_id)
         /\ Exists(last'.transaction.instruction.destination_account_id)
         /\ last'.transaction.instruction.source_account_id
              # last'.transaction.instruction.destination_account_id
         /\ BalanceOf(accounts, last'.transaction.instruction.source_account_id)
              >= last'.transaction.instruction.amount
         /\ BalanceOf(accounts, last'.transaction.instruction.destination_account_id)
              + last'.transaction.instruction.amount > U64Max)
        => (/\ last'.result = Overflow
            /\ accounts' = accounts
            /\ processed_transactions' = processed_transactions) ]_vars

\* ------------------------------------------------------------------ C11
\* The step is a call of Ledger::transfer or of update_account_balance, on a
\* lock that is not poisoned.
TransferCalled ==
    /\ ~poisoned
    /\ call'.op[1] = "transfer"
    /\ LedgerTransfer(call'.op[2], call'.op[3], call'.op[4], call'.op[5])

UpdateAccountBalanceCalled ==
    /\ ~poisoned
    /\ call'.op[1] = "update_account_balance"
    /\ LedgerUpdateAccountBalance(call'.op[2], call'.op[3])

\* C11: a transfer under an unprocessed id, or a deposit, that names an account
\* the store does not hold returns AccountNotFound and leaves the accounts and
\* the processed ids as they were.
C11_MissingAccount ==
    [][ (\/ /\ TransferCalled
            /\ call'.op[2] \notin processed_transactions
            /\ (~Exists(call'.op[3]) \/ ~Exists(call'.op[4]))
         \/ /\ UpdateAccountBalanceCalled
            /\ ~Exists(call'.op[2]))
        => (/\ call'.result = "AccountNotFound"
            /\ accounts' = accounts
            /\ processed_transactions' = processed_transactions) ]_vars

\* ------------------------------------------------------------------ C12
\* C12: a GetBalance, found or not, changes no account and adds no processed id.
C12_GetBalanceReadOnly ==
    [][ ProcessedKind("GetBalance")
        => (/\ accounts' = accounts
            /\ processed_transactions' = processed_transactions) ]_vars

\* A balance above zero was read under an id that no instruction has used.
C12_Witness ==
    /\ last.transaction.instruction.kind = "GetBalance"
    /\ last.result.tag = "Balance"
    /\ last.result.val > 0
    /\ last.transaction.id \notin processed_transactions

\* ------------------------------------------------------------------ C13
\* C13: a Deposit or Transfer of amount 0 (existing accounts, unprocessed id)
\* returns InvalidAmount, changes no account and records no id.
C13_ZeroAmountRejected ==
    [][ (/\ Processed
         /\ last'.transaction.instruction.kind \in {"Deposit", "Transfer"}
         /\ last'.transaction.instruction.amount = 0
         /\ last'.transaction.id \notin processed_transactions
         /\ Exists(last'.transaction.instruction.destination_account_id)
         /\ last'.transaction.instruction.kind = "Transfer"
              => Exists(last'.transaction.instruction.source_account_id))
        => (/\ last'.result = Result("InvalidAmount", 0)
            /\ accounts' = accounts
            /\ processed_transactions' = processed_transactions) ]_vars

\* ------------------------------------------------------------------ C14
Applied(result) == result.tag \in {"Success", "AccountCreated"}

\* C14: of the submissions of one Transfer, CreateAccount or Deposit id, only a
\* successful one changes the accounts or the processed ids, it is one whose id
\* was not yet recorded, it records the id for good, and every submission
\* after it returns TransactionAlreadyProcessed and changes nothing.
C14_ExactlyOnce ==
    [][ (/\ Processed
         /\ last'.transaction.instruction.kind \in {"Transfer", "CreateAccount", "Deposit"})
        => (/\ Applied(last'.result)
                 => /\ last'.transaction.id \notin processed_transactions
                    /\ last'.transaction.id \in processed_transactions'
            /\ ~Applied(last'.result)
                 => /\ accounts' = accounts
                    /\ processed_transactions' = processed_transactions
            /\ last'.transaction.id \in processed_transactions
                 => last'.result = TransactionAlreadyProcessed
            /\ processed_transactions \subseteq processed_transactions') ]_vars

\* A transfer that sits once in its source's history was submitted again and
\* refused.
C14_Witness ==
    /\ last.transaction.instruction.kind = "Transfer"
    /\ last.result = TransactionAlreadyProcessed
    /\ Exists(last.transaction.instruction.source_account_id)
    /\ LET h == accounts[last.transaction.instruction.source_account_id].transaction_history
       IN Cardinality({ k \in DOMAIN h : h[k] = last.transaction.id }) = 1

\* ------------------------------------------------------------------ C15
RECURSIVE TotalOver(_, _)
TotalOver(accs, ids) ==
    IF ids = {} THEN 0
    ELSE LET id == CHOOSE x \in ids : TRUE
         IN accs[id].balance + TotalOver(accs, ids \ {id})

TotalBalance(accs) == TotalOver(accs, DOMAIN accs)

\* C15: whatever the interleaving of the handlers, a Transfer that finishes
\* leaves the total of all balances as it was, and it is applied to the ledger
\* (its id newly recorded, the accounts written) exactly when it returns Success.
C15_ContentionConservation ==
    [][ \A w \in Workers :
          (Finishes(w) /\ req[w].instruction.kind = "Transfer" /\ ~poisoned)
          => (/\ TotalBalance(accounts') = TotalBalance(accounts)
              /\ res'[w] = Success
                   <=> req[w].id \in processed_transactions' \ processed_transactions
              /\ res'[w] # Success => accounts' = accounts) ]_vars

\* ------------------------------------------------------------------ C16
\* The locks the next step of handler w asks for.
WaitsFor(w) ==
    CASE pc[w] = "waiting" -> {"processor"}
      [] pc[w] = "processor" -> {"ledger"}
      [] pc[w] = "ledger" ->
           IF req[w].instruction.kind = "Transfer" THEN {"processed"}
           ELSE IF req[w].instruction.kind = "GetBalance" THEN {"accounts"}
           ELSE {"accounts", "processed"}
      [] pc[w] \in {"checked", "source", "ready"} -> {"accounts"}
      [] pc[w] = "accounts" -> {"processed"}
      [] OTHER -> {}

Holds(v, n) == locks[n].writer = v \/ v \in locks[n].readers

NoCircularWait ==
    \A w \in Workers, v \in Workers :
        w # v => ~ /\ \E n \in WaitsFor(w) : Holds(v, n)
                   /\ \E n \in WaitsFor(v) : Holds(w, n)

Partial(v) == pc[v] \in {"inserted_source", "inserted_dest"}

\* The step is one in which handler w reads the accounts or the processed ids.
Observes(w) ==
    /\ pc[w] \in {"ledger", "checked", "source", "safeguard"}
    /\ pc'[w] # pc[w]

AccountsOf(instruction) ==
    CASE instruction.kind = "Transfer" ->
           {instruction.source_account_id, instruction.destination_account_id}
      [] instruction.kind = "Deposit" -> {instruction.destination_account_id}
      [] instruction.kind = "GetBalance" -> {instruction.account_id}
      [] OTHER -> {}

\* C17: while a transfer has some of its effects written and not all, no other
\* handler whose GetBalance, Deposit or Transfer touches one of its two accounts
\* reads the accounts or the processed ids.
C17_TransferAtomicity ==
    [][ \A w \in Workers, v \in Workers :
          (/\ w # v
           /\ Partial(v)
           /\ AccountsOf(req[w].instruction) \cap AccountsOf(req[v].instruction) # {})
          => ~Observes(w) ]_vars

\* A transfer is half written while a request on one of its accounts waits.
C17_Witness ==
    \E w \in Workers, v \in Workers :
        /\ w # v
        /\ Partial(v)
        /\ pc[w] = "waiting"
        /\ req[w].instruction.kind \in {"GetBalance", "Deposit", "Transfer"}
        /\ AccountsOf(req[w].instruction) \cap AccountsOf(req[v].instruction) # {}

\* ------------------------------------------------------------------ C18
\* Handler v is between taking the processor's lock and returning.
InCriticalSection(v) == pc[v] \notin {"idle", "waiting", "done"}

\* C18: a transfer is not kept waiting by a transfer in progress whose two
\* accounts are both different from its own: it can take its locks at once, so
\* that the two are inside their critical sections together.
C18_DisjointParallel ==
    \A w \in Workers, v \in Workers :
        (/\ w # v
         /\ ~poisoned
         /\ pc[w] = "waiting"
         /\ InCriticalSection(v)
         /\ req[w].instruction.kind = "Transfer"
         /\ req[v].instruction.kind = "Transfer"
         /\ AccountsOf(req[w].instruction) \cap AccountsOf(req[v].instruction) = {})
        => can_write(locks.processor)

\* ------------------------------------------------------------------ C19
\* C19: load_state on the store that save_state wrote returns the containers
\* that were saved: the same accounts with their balances, keys and histories in
\* order, the same transactions, the same processed ids.
C19_SnapshotRoundTrip ==
    phase = "loaded"
    => call.result = [err |-> "Ok",
                      accounts |-> accounts,
                      transactions |-> call.op[2],
                      processed_transactions |-> processed_transactions]

\* ------------------------------------------------------------------ C20
\* C20: once the snapshot is taken the engine processes no request.
C20_NoRequestAfterSnapshot ==
    [][ Processed => phase # "saved" ]_vars

\* ------------------------------------------------------------------ C21
\* C21: a CreateAccount whose id is not processed adds exactly one account, under
\* an id that was absent, with balance zero, an empty history and the given
\* keys; every account that existed is unchanged; the transaction id is
\* recorded; the result is AccountCreated with the new id.
C21_AccountCreation ==
    [][ (/\ ProcessedKind("CreateAccount")
         /\ last'.transaction.id \notin processed_transactions)
        => \E id \in DOMAIN accounts' \ DOMAIN accounts :
              /\ DOMAIN accounts' = DOMAIN accounts \cup {id}
              /\ accounts'[id].uuid = id
              /\ accounts'[id].balance = 0
              /\ accounts'[id].transaction_history = <<>>
              /\ accounts'[id].keys = last'.transaction.instruction.keys
              /\ \A a \in DOMAIN accounts : accounts'[a] = accounts[a]
              /\ processed_transactions' =
                    processed_transactions \cup {last'.transaction.id}
              /\ last'.result = AccountCreated(id) ]_vars

\* An account with a key was created beside an account that holds funds.
C21_Witness ==
    /\ last.result.tag = "AccountCreated"
    /\ last.transaction.instruction.keys # <<>>
    /\ accounts[last.result.val].keys = last.transaction.instruction.keys
    /\ \E a \in DOMAIN accounts \ {last.result.val} : accounts[a].balance > 0

\* ------------------------------------------------------------------ C22
\* The result is one that process_transaction returns with Ok, with Err.
Succeeded(result) == result.tag \in {"Success", "AccountCreated", "Balance"}

Refused(result) ==
    result.tag \notin {"Success", "AccountCreated", "Balance", "panic", "none"}

\* C22: a transaction that process_transaction accepted is Completed and one
\* that it refused is Failed.
C22_StatusStateMachine ==
    /\ Succeeded(last.result) => last.transaction.status = "Completed"
    /\ Refused(last.result) => last.transaction.status = "Failed"

\* ------------------------------------------------------------------ C23
\* C23: no run of process_transaction removes an account: the set of account
\* ids only grows.
C23_AccountsNeverRemoved ==
    [][ Processed => DOMAIN accounts \subseteq DOMAIN accounts' ]_vars

\* Two accounts exist after a creation, a deposit and a transfer between them.
C23_Witness ==
    /\ Cardinality(DOMAIN accounts) = MaxAccounts
    /\ last.transaction.instruction.kind = "Transfer"
    /\ last.result = Success
    /\ last.transaction.instruction.source_account_id
         # last.transaction.instruction.destination_account_id

\* ------------------------------------------------------------------ C24
\* C24: no id is processed at the start; an id becomes processed exactly by a
\* CreateAccount, Deposit or Transfer that succeeds with it; a processed id
\* stays processed under every later operation.
C24_ProcessedPermanent ==
    /\ \A id \in TxIds \cup CreateIds :
          ~is_transaction_processed(Ledger(accounts, processed_transactions), id)
    /\ [][
          /\ \A id \in processed_transactions :
                is_transaction_processed(
                    Ledger(accounts', processed_transactions'), id)
          /\ \A id \in processed_transactions' \ processed_transactions :
                /\ Processed
                /\ last'.transaction.id = id
                /\ last'.result.tag \in {"Success", "AccountCreated"}
          /\ (/\ Processed
              /\ last'.transaction.instruction.kind # "GetBalance"
              /\ last'.result.tag \in {"Success", "AccountCreated"})
             => is_transaction_processed(
                    Ledger(accounts', processed_transactions'),
                    last'.transaction.id)
       ]_vars

\* Two ids are processed, one by a transfer, and a later request was refused.
C24_Witness ==
    /\ Cardinality(processed_transactions) >= 2
    /\ \E a \in DOMAIN accounts : accounts[a].transaction_history # <<>>
    /\ last.result = TransactionAlreadyProcessed

\* ------------------------------------------------------------------ C25
\* C25: when process_transaction returns an error, the accounts and the
\* processed ids are what they were before the call.
C25_ErrorsLeaveStateUnchanged ==
    [][ (Processed /\ Refused(last'.result))
        => (/\ accounts' = accounts
            /\ processed_transactions' = processed_transactions) ]_vars

\* A transfer was refused for lack of funds while both accounts exist.
C25_Witness ==
    /\ last.result = InsufficientFunds
    /\ Cardinality(DOMAIN accounts) = MaxAccounts
    /\ last.transaction.id \notin processed_transactions

\* ------------------------------------------------------------------ C27
\* C27: a successful Transfer between two distinct accounts appends its id once
\* to the history of the source and once to the history of the destination, and
\* leaves the history of every other account as it was.
C27_TransferHistory ==
    [][ (/\ ProcessedKind("Transfer")
         /\ last'.result = Success
         /\ last'.transaction.instruction.source_account_id
              # last'.transaction.instruction.destination_account_id)
        => \A a \in DOMAIN accounts :
              accounts'[a].transaction_history =
                 IF a \in {last'.transaction.instruction.source_account_id,
                           last'.transaction.instruction.destination_account_id}
                 THEN Append(accounts[a].transaction_history, last'.transaction.id)
                 ELSE accounts[a].transaction_history ]_vars

\* A transfer landed between two accounts while a third account, with a
\* history of its own, stood by.
C27_Witness ==
    /\ last.transaction.instruction.kind = "Transfer"
    /\ last.result = Success
    /\ last.transaction.instruction.source_account_id
         # last.transaction.instruction.destination_account_id
    /\ \E a \in DOMAIN accounts :
          /\ a \notin {last.transaction.instruction.source_account_id,
                        last.transaction.instruction.destination_account_id}
          /\ accounts[a].transaction_history # <<>>

\* ------------------------------------------------------------------ C26
\* C26: a transfer under a processed id returns TransactionAlreadyProcessed; a
\* transfer under a new id whose destination is missing and whose amount is
\* above the balance of its source returns AccountNotFound, not
\* InsufficientFunds.
C26_TransferErrorPrecedence ==
    [][ TransferCalled
        => (/\ call'.op[2] \in processed_transactions
               => call'.result = "TransactionAlreadyProcessed"
            /\ (/\ call'.op[2] \notin processed_transactions
                /\ Exists(call'.op[3])
                /\ ~Exists(call'.op[4])
                /\ call'.op[5] > BalanceOf(accounts, call'.op[3]))
               => call'.result = "AccountNotFound") ]_vars

\* ------------------------------------------------------------------ C28
\* C28: a GetBalance of an existing account returns its current balance whether
\* or not the id of the request is processed, and a GetBalance that follows a
\* GetBalance of the same account returns the same value.
C28_GetBalanceNotGated ==
    [][ (/\ ProcessedKind("GetBalance")
         /\ Exists(last'.transaction.instruction.account_id))
        => (/\ last'.result =
                 Balance(BalanceOf(accounts, last'.transaction.instruction.account_id))
            /\ (/\ last.transaction.instruction.kind = "GetBalance"
                /\ last.transaction.instruction.account_id
                     = last'.transaction.instruction.account_id)
               => last'.result = last.result) ]_vars

\* The balance of a funded account was read under an id that is processed.
C28_Witness ==
    /\ last.transaction.instruction.kind = "GetBalance"
    /\ last.transaction.id \in processed_transactions
    /\ last.result.tag = "Balance"
    /\ last.result.val > 0

\* ------------------------------------------------------------------ C29
\* C29: when a service task ends before any signal, the run that returns leaves
\* the current accounts in the store.
C29_TaskFailureStillSaves ==
    [][ (ServiceEnded /\ ~poisoned)
        => db'.accounts = save_accounts(db, accounts).accounts ]_vars

\* ------------------------------------------------------------------ C30
\* C30: after save_state the store holds one row for each account, transaction
\* and processed id passed in and no other row: what an earlier snapshot held
\* and the current containers do not is gone.
C30_FullRewrite ==
    phase = "saved"
    => (/\ db.accounts = [u \in DOMAIN accounts |-> account_row(accounts[u])]
        /\ db.transactions =
              [i \in DOMAIN call.op[2] |-> transaction_row(call.op[2][i])]
        /\ db.processed_transactions =
              { uuid_to_string(i) : i \in processed_transactions }
        /\ \A u \in DOMAIN call.op[3].accounts \ DOMAIN accounts :
              u \notin DOMAIN db.accounts)

\* The store held an account, a transaction and a processed id that the saved
\* containers do not hold.
C30_Witness ==
    /\ phase = "saved"
    /\ DOMAIN call.op[3].accounts \ DOMAIN accounts # {}
    /\ DOMAIN call.op[3].transactions \ DOMAIN call.op[2] # {}
    /\ call.op[3].processed_transactions
         \ { uuid_to_string(i) : i \in processed_transactions } # {}
    /\ DOMAIN accounts # {}

\* ------------------------------------------------------------------ C31
\* C31: a save_state in which a statement fails returns an error and leaves the
\* store holding the snapshot it held before the call.
C31_SaveAllOrNothing ==
    phase = "save_failed"
    => (/\ call.result # "Ok"
        /\ db = call.op[3])

\* The save failed after the tables were emptied and part of the rows were
\* inserted, over a store that held an earlier snapshot.
C31_Witness ==
    /\ phase = "save_failed"
    /\ call.op[3] = EarlierSnapshot
    /\ call.op[4] > 3
    /\ call.op[4] < statement_count(accounts, call.op[2], processed_transactions)

\* ------------------------------------------------------------------ C32
\* The ids in the histories of a map of accounts.
HistoryIds(accs) ==
    UNION { { accs[a].transaction_history[k] :
                k \in 1..Len(accs[a].transaction_history) } : a \in DOMAIN accs }

\* C32: the accounts saved at shutdown are the accounts of one state in which
\* no transfer is between its two writes: every transfer in the snapshot is in
\* the history of both of its accounts, and the balances add up to the opening
\* balances plus the deposits that were applied.
C32_CoherentSnapshot ==
    phase = "saved"
    => (/\ db.accounts = [u \in DOMAIN accounts |-> account_row(accounts[u])]
        /\ \A w \in Workers : ~Partial(w)
        /\ \A i \in HistoryIds(accounts) :
              Cardinality({ a \in DOMAIN accounts :
                  \E k \in 1..Len(accounts[a].transaction_history) :
                      accounts[a].transaction_history[k] = i }) = 2
        /\ TotalBalance(accounts) =
              MaxLockAccounts
              + Cardinality(processed_transactions \ HistoryIds(accounts)))

\* The snapshot was taken while a request waited, after a transfer and a
\* deposit had been applied.
C32_Witness ==
    /\ phase = "saved"
    /\ HistoryIds(accounts) # {}
    /\ processed_transactions \ HistoryIds(accounts) # {}
    /\ \E w \in Workers : pc[w] \in {"waiting", "processor"}

\* ------------------------------------------------------------------ C33
\* C33: once process_transaction has run on a transaction, the transactions
\* kept for the snapshot hold an entry under its id with its instruction.
C33_TransactionsRecorded ==
    (last.transaction # NoTransaction /\ last.result # Panicked)
    => (/\ last.transaction.id \in DOMAIN transactions
        /\ transactions[last.transaction.id].instruction
             = last.transaction.instruction)

\* ------------------------------------------------------------------ C34
\* C34: whatever the interleaving, each write of a transfer and of a deposit is
\* made on the balance the store holds at that moment: the debit and the credit
\* that commit_transfer writes back and the deposit's addition each move the
\* stored balance by exactly the amount, so neither overwrites the other.
C34_NoLostUpdate ==
    [][ \A w \in Workers :
          LET inst == req[w].instruction
          IN /\ (pc[w] = "safeguard" /\ pc'[w] = "inserted_source")
                => BalanceOf(accounts', inst.source_account_id)
                     = BalanceOf(accounts, inst.source_account_id) - inst.amount
             /\ (pc[w] = "inserted_source" /\ pc'[w] = "inserted_dest")
                => BalanceOf(accounts', inst.destination_account_id)
                     = BalanceOf(accounts, inst.destination_account_id) + inst.amount
             /\ (/\ pc[w] = "ledger"
                 /\ inst.kind = "Deposit"
                 /\ pc'[w] = "done"
                 /\ res'[w] = Success)
                => BalanceOf(accounts', inst.destination_account_id)
                     = BalanceOf(accounts, inst.destination_account_id) + inst.amount
      ]_vars

\* A deposit into an account and a transfer that uses the account were in
\* flight together and both succeeded.
C34_Witness ==
    \E w \in Workers, v \in Workers :
        /\ pc[w] = "done" /\ pc[v] = "done"
        /\ res[w] = Success /\ res[v] = Success
        /\ req[w].instruction.kind = "Deposit"
        /\ req[v].instruction.kind = "Transfer"
        /\ AccountsOf(req[w].instruction) \cap AccountsOf(req[v].instruction) # {}

\* ------------------------------------------------------------------ C35
\* What a run of process_transaction that returned `result` on `instruction`
\* owes to account a, and what it takes from it.
Credit(instruction, result, a) ==
    IF /\ result = Success
       /\ instruction.kind \in {"Deposit", "Transfer"}
       /\ instruction.destination_account_id = a
    THEN instruction.amount ELSE 0

Debit(instruction, result, a) ==
    IF /\ result = Success
       /\ instruction.kind = "Transfer"
       /\ instruction.source_account_id = a
    THEN instruction.amount ELSE 0

\* C35: a new account has balance zero, and every operation changes the balance
\* of each account by what it deposits or transfers into it less what it
\* transfers out of it: the balance is the sum of the successful deposits and
\* of the transfers in, less the transfers out.
C35_BalanceAccounting ==
    [][ Processed
        => \A a \in DOMAIN accounts' :
              BalanceOf(accounts', a) =
                 (IF a \in DOMAIN accounts THEN BalanceOf(accounts, a) ELSE 0)
                 + Credit(last'.transaction.instruction, last'.result, a)
                 - Debit(last'.transaction.instruction, last'.result, a) ]_vars

\* ------------------------------------------------------------------ C36
\* C36: when run has returned after the signal, the store holds the accounts as
\* every request answered before that return left them.
C36_AcknowledgedWorkDurable ==
    phase = "exited"
    => db.accounts = [u \in DOMAIN accounts |-> account_row(accounts[u])]

\* ------------------------------------------------------------------ C37
\* C37: a successful Transfer or Deposit adds and removes no account, leaves
\* every account other than its source and destination (its target) as it was,
\* and leaves the uuid and the keys of every account as they were.
C37_WriteFrame ==
    [][ (/\ Processed
         /\ last'.transaction.instruction.kind \in {"Transfer", "Deposit"}
         /\ last'.result = Success)
        => (/\ DOMAIN accounts' = DOMAIN accounts
            /\ \A a \in DOMAIN accounts :
                  /\ a \notin AccountsOf(last'.transaction.instruction)
                       => accounts'[a] = accounts[a]
                  /\ accounts'[a].uuid = accounts[a].uuid
                  /\ accounts'[a].keys = accounts[a].keys) ]_vars

\* A transfer landed on an account that has a key while another account that
\* has a key stood by.
C37_Witness ==
    /\ last.transaction.instruction.kind = "Transfer"
    /\ last.result = Success
    /\ \E a \in DOMAIN accounts, b \in DOMAIN accounts :
          /\ a \in AccountsOf(last.transaction.instruction)
          /\ b \notin AccountsOf(last.transaction.instruction)
          /\ accounts[a].keys # <<>>
          /\ accounts[b].keys # <<>>

\* ------------------------------------------------------------------ C38
\* The number of entries of a history that are the id i.
Occurrences(history, i) ==
    Cardinality({ k \in 1..Len(history) : history[k] = i })

\* C38: in every reachable state every id in the history of an account is a
\* processed id and no id is twice in the history of one account; and every
\* operation leaves the history an account had as a prefix of the history it
\* has.
C38_HistoryConsistency ==
    /\ [](/\ HistoryIds(accounts) \subseteq processed_transactions
          /\ \A a \in DOMAIN accounts : \A i \in HistoryIds(accounts) :
                Occurrences(accounts[a].transaction_history, i) <= 1)
    /\ [][ Processed => \A a \in DOMAIN accounts \cap DOMAIN accounts' :
             /\ Len(accounts[a].transaction_history)
                  <= Len(accounts'[a].transaction_history)
             /\ SubSeq(accounts'[a].transaction_history, 1,
                       Len(accounts[a].transaction_history))
                  = accounts[a].transaction_history ]_vars

\* ------------------------------------------------------------------ C39
\* The step is a call of commit_transfer.
CommitTransferCalled ==
    /\ call'.op[1] = "commit_transfer"
    /\ \E s \in AccountIds, d \in AccountIds :
          CallCommitTransfer(call'.op[2], s, d,
                             call'.op[3].balance, call'.op[4].balance)

\* C39: commit_transfer under a processed id returns
\* TransactionAlreadyProcessed and changes neither the stored accounts, nor the
\* processed ids, nor the two copies of the caller; under a new id it stores the
\* balances of the copies as given and records the id.
C39_CommitSafeguard ==
    [][ CommitTransferCalled
        => IF call'.op[2] \in processed_transactions
           THEN /\ call'.result = "TransactionAlreadyProcessed"
                /\ accounts' = accounts
                /\ processed_transactions' = processed_transactions
                /\ call'.source_account = call'.op[3]
                /\ call'.dest_account = call'.op[4]
           ELSE /\ call'.result = "Ok"
                /\ BalanceOf(accounts', call'.op[4].uuid) = call'.op[4].balance
                /\ call'.op[3].uuid # call'.op[4].uuid
                     => BalanceOf(accounts', call'.op[3].uuid) = call'.op[3].balance
                /\ call'.op[2] \in processed_transactions' ]_vars

\* commit_transfer was refused under the id of a transfer that had been
\* committed, with copies whose balances differ from the stored ones.
C39_Witness ==
    /\ call.op[1] = "commit_transfer"
    /\ call.result = "TransactionAlreadyProcessed"
    /\ call.op[2] \in HistoryIds(accounts)
    /\ call.op[3].uuid # call.op[4].uuid
    /\ call.op[3].balance # BalanceOf(accounts, call.op[3].uuid)

\* ------------------------------------------------------------------ C40
\* The place of a lock in the order processor, ledger, accounts, processed.
LockRank(n) ==
    CASE n = "processor" -> 1
      [] n = "ledger" -> 2
      [] n = "accounts" -> 3
      [] n = "processed" -> 4

LockNames == {"processor", "ledger", "accounts", "processed"}

HoldsIn(ls, v, n) == ls[n].writer = v \/ v \in ls[n].readers

\* C40: a handler that takes a lock, or is about to take one, holds only locks
\* that come before it in the order processor, ledger, accounts, processed; in
\* particular none takes the accounts' lock while it holds the processed ids'
\* lock; and no two handlers wait for each other.
C40_LockHierarchy ==
    /\ [][ \A w \in Workers, n \in LockNames :
             (~HoldsIn(locks, w, n) /\ HoldsIn(locks', w, n))
             => \A m \in LockNames :
                   HoldsIn(locks, w, m) => LockRank(m) < LockRank(n) ]_vars
    /\ [](\A w \in Workers : \A n \in WaitsFor(w), m \in LockNames :
             HoldsIn(locks, w, m) => LockRank(m) < LockRank(n))
    /\ []NoCircularWait

\* A handler holds the processor's, the ledger's and the accounts' lock and is
\* about to take the processed ids' lock, while another handler waits.
C40_Witness ==
    \E w \in Workers, v \in Workers :
        /\ w # v
        /\ pc[w] = "accounts"
        /\ HoldsIn(locks, w, "processor")
        /\ HoldsIn(locks, w, "ledger")
        /\ HoldsIn(locks, w, "accounts")
        /\ pc[v] = "waiting"

====
